---- MODULE Spec2Model ----
(***************************************************************************)
(* State machine of the pole / alert state and the control-action workflow *)
(* of the KSEB Smart LT Line Monitor dashboard:                            *)
(*   src/src/app/page.tsx                   HomePage                       *)
(*   src/src/components/MapControlPanel.tsx MapControlPanel and its modals *)
(*                                                                         *)
(* One action is one browser event: a click, a selection, a keystroke in   *)
(* the confirmation box, or a timer firing.  React state of a component is *)
(* a variable named as in the source.  Fields of PoleData that no handler  *)
(* writes (lat, lng, location), Alert.isExpanded and the map highlight     *)
(* selectedPoleId of MapControlPanel are left out.                         *)
(***************************************************************************)
EXTENDS Integers, Sequences, FiniteSets, TLC

(***************************************************************************)
(* Bounds of the model.                                                    *)
(***************************************************************************)
\* number of handler calls that read the clock (Date.now / new Date)
MaxClock == 2
\* number of simulated-latency timers pending at the same time (two let a
\* second confirmation start while the first is still waiting)
MaxTimers == 2

(***************************************************************************)
(* Values.                                                                 *)
(***************************************************************************)
\* the absent value of an optional field (TypeScript undefined)
Undefined == "undefined"
\* isolationPoleId before it is set (JavaScript null)
Null == "null"
\* selectedPole before any marker was clicked (JavaScript null)
NullPole == [id |-> Null]

Statuses == {"healthy", "faulty", "isolated", "maintenance"}

\* options of the severity select of AddIssueModal the user picks from
\* (two of the three options of the source; medium is the form's default)
Severities == {"medium", "high"}

\* options of the fault type select of AddIssueModal the user picks from
\* (two of the seven options of the source)
FaultTypes == {"Voltage Drop", "Line Break"}

\* texts typed into the confirmation box of IsolationModal
ConfirmTexts == {"ISO", "isolate", "ISOLATE"}

\* samples of Math.random() * 10 in [0,10) and of Math.random() * 5 in [0,5)
VoltageJitter == {0, 9}
CurrentJitter == {4}

mockPoles ==
  << [id |-> "P001", status |-> "faulty", voltage |-> 210, current |-> 15,
      lastUpdated |-> "2024-01-15T10:30:00Z", faultType |-> "Voltage Drop",
      severity |-> "high", isolatedBy |-> Undefined, isolatedAt |-> Undefined],
     [id |-> "P002", status |-> "healthy", voltage |-> 230, current |-> 18,
      lastUpdated |-> "2024-01-15T10:29:00Z", faultType |-> Undefined,
      severity |-> Undefined, isolatedBy |-> Undefined, isolatedAt |-> Undefined],
     [id |-> "P003", status |-> "isolated", voltage |-> 0, current |-> 0,
      lastUpdated |-> "2024-01-15T10:25:00Z", faultType |-> "Current Spike",
      severity |-> "medium", isolatedBy |-> "Admin",
      isolatedAt |-> "2024-01-15T09:45:00Z"],
     [id |-> "P004", status |-> "healthy", voltage |-> 235, current |-> 14,
      lastUpdated |-> "2024-01-15T10:28:00Z", faultType |-> Undefined,
      severity |-> Undefined, isolatedBy |-> Undefined, isolatedAt |-> Undefined],
     [id |-> "P005", status |-> "maintenance", voltage |-> 220, current |-> 10,
      lastUpdated |-> "2024-01-15T10:27:00Z",
      faultType |-> "Scheduled Maintenance", severity |-> Undefined,
      isolatedBy |-> Undefined, isolatedAt |-> Undefined] >>

mockAlerts ==
  << [id |-> "A001", poleId |-> "P001",
      message |-> "Pole #P001 - Voltage Drop Detected",
      timestamp |-> "2024-01-15T10:30:00Z", severity |-> "high",
      createdBy |-> Undefined],
     [id |-> "A002", poleId |-> "P003",
      message |-> "Pole #P003 - Current Spike Warning",
      timestamp |-> "2024-01-15T10:25:00Z", severity |-> "medium",
      createdBy |-> Undefined] >>

\* the ids of the registry, in list order
PoleIds == {mockPoles[i].id : i \in DOMAIN mockPoles}

\* the initial form of AddIssueModal (description is not read by any handler)
EmptyAddForm == [selectedPoleId |-> "", faultType |-> "", severity |-> "medium"]

VARIABLES
  poles,                   \* MapControlPanel: PoleData[]
  alerts,                  \* MapControlPanel: Alert[]
  selectedPole,            \* MapControlPanel: the PoleData the popup shows, or Null
  showPolePopup,
  showIsolationModal,
  showResetModal,
  showAddIssueModal,
  showFixIssueModal,
  showManualControlsModal,
  isolationPoleId,         \* MapControlPanel: string | null
  addForm,                 \* AddIssueModal: selectedPoleId, faultType, severity
  fixSelectedPoleId,       \* FixIssueModal: selectedPoleId
  confirmText,             \* IsolationModal
  isoLoading,              \* IsolationModal: isLoading
  resetLoading,            \* ResetModal: isLoading
  timers,                  \* pending setTimeout continuations, by kind
  showMobilePreview,       \* HomePage
  isOnline,                \* MobileFieldAppShell
  confirmDialog,           \* MobileFieldAppShell: confirmDialog.type, or Null
  toasts,                  \* the notifications the latest event emitted
  now                      \* the clock, in ticks since the page was loaded

panelVars == << poles, alerts, selectedPole, showPolePopup, showIsolationModal,
                showResetModal, showAddIssueModal, showFixIssueModal,
                showManualControlsModal, isolationPoleId, addForm,
                fixSelectedPoleId, confirmText, isoLoading, resetLoading >>

vars == << poles, alerts, selectedPole, showPolePopup, showIsolationModal,
           showResetModal, showAddIssueModal, showFixIssueModal,
           showManualControlsModal, isolationPoleId, addForm,
           fixSelectedPoleId, confirmText, isoLoading, resetLoading,
           timers, showMobilePreview, isOnline, confirmDialog, toasts, now >>

mobileVars == << isOnline, confirmDialog >>

(***************************************************************************)
(* Helpers.                                                                *)
(***************************************************************************)
\* new Date().toISOString() and Date.now() rendered into a string
toISOString(t) == "T+" \o ToString(t)

\* a sonner notification
Toast(kind, message) == [kind |-> kind, message |-> message]

\* the handlers that read the clock run while it is below its bound
ClockRuns == now < MaxClock

PendingTimers ==
  timers.isolate + timers.reset + timers.orphanIsolate + timers.orphanReset

NoTimers == [isolate |-> 0, reset |-> 0, orphanIsolate |-> 0, orphanReset |-> 0]

(***************************************************************************)
(* The handlers of MapControlPanel.  Each is the whole useCallback body:   *)
(* the setPoles / setAlerts updaters and the notification.                 *)
(***************************************************************************)
faultyPoles == SelectSeq(poles, LAMBDA pole : pole.status = "faulty")

hasActiveFaults == Len(faultyPoles) > 0

handleMarkerClick(pole) ==
  /\ selectedPole' = pole
  /\ showPolePopup' = TRUE

\* handleAddIssue with the alert's own id stored as its poleId
handleAddIssue_AlertKeyedById(poleId, issueData) ==
  LET newAlert ==
        [id |-> "A" \o toISOString(now),
         poleId |-> "A" \o toISOString(now),
         message |-> "Pole #" \o poleId \o " - " \o issueData.faultType
                       \o " (Manual)",
         timestamp |-> toISOString(now),
         severity |-> issueData.severity,
         createdBy |-> "manual"]
  IN /\ ClockRuns
     /\ poles' = [i \in DOMAIN poles |->
                    IF poles[i].id = poleId
                    THEN [poles[i] EXCEPT !.status = "faulty",
                                          !.faultType = issueData.faultType,
                                          !.severity = issueData.severity,
                                          !.lastUpdated = toISOString(now)]
                    ELSE poles[i]]
     /\ alerts' = << newAlert >> \o alerts
     /\ toasts' = << Toast("success", "Issue added to pole " \o poleId) >>
     /\ now' = now + 1

\* handleAddIssue with the new alert put at the end of the list
handleAddIssue_Appends(poleId, issueData) ==
  LET newAlert ==
        [id |-> "A" \o toISOString(now),
         poleId |-> poleId,
         message |-> "Pole #" \o poleId \o " - " \o issueData.faultType
                       \o " (Manual)",
         timestamp |-> toISOString(now),
         severity |-> issueData.severity,
         createdBy |-> "manual"]
  IN /\ ClockRuns
     /\ poles' = [i \in DOMAIN poles |->
                    IF poles[i].id = poleId
                    THEN [poles[i] EXCEPT !.status = "faulty",
                                          !.faultType = issueData.faultType,
                                          !.severity = issueData.severity,
                                          !.lastUpdated = toISOString(now)]
                    ELSE poles[i]]
     /\ alerts' = alerts \o << newAlert >>
     /\ toasts' = << Toast("success", "Issue added to pole " \o poleId) >>
     /\ now' = now + 1

handleAddIssue(poleId, issueData) ==
  LET newAlert ==
        [id |-> "A" \o toISOString(now),
         poleId |-> poleId,
         message |-> "Pole #" \o poleId \o " - " \o issueData.faultType
                       \o " (Manual)",
         timestamp |-> toISOString(now),
         severity |-> issueData.severity,
         createdBy |-> "manual"]
  IN /\ ClockRuns
     /\ poles' = [i \in DOMAIN poles |->
                    IF poles[i].id = poleId
                    THEN [poles[i] EXCEPT !.status = "faulty",
                                          !.faultType = issueData.faultType,
                                          !.severity = issueData.severity,
                                          !.lastUpdated = toISOString(now)]
                    ELSE poles[i]]
     /\ alerts' = << newAlert >> \o alerts
     /\ toasts' = << Toast("success", "Issue added to pole " \o poleId) >>
     /\ now' = now + 1

\* handleFixIssue without the reset of the severity
handleFixIssue_KeepsSeverity(poleId) ==
  /\ ClockRuns
  /\ \E dv \in VoltageJitter, dc \in CurrentJitter :
       poles' = [i \in DOMAIN poles |->
                   IF poles[i].id = poleId
                   THEN [poles[i] EXCEPT !.status = "healthy",
                                         !.faultType = Undefined,
                                         !.lastUpdated = toISOString(now),
                                         !.voltage = 230 + dv,
                                         !.current = 15 + dc]
                   ELSE poles[i]]
  /\ alerts' = SelectSeq(alerts, LAMBDA alert : alert.poleId # poleId)
  /\ toasts' = << Toast("success", "Issue fixed for pole " \o poleId) >>
  /\ now' = now + 1

\* handleFixIssue with the alerts filtered on their own id
handleFixIssue_FiltersByAlertId(poleId) ==
  /\ ClockRuns
  /\ \E dv \in VoltageJitter, dc \in CurrentJitter :
       poles' = [i \in DOMAIN poles |->
                   IF poles[i].id = poleId
                   THEN [poles[i] EXCEPT !.status = "healthy",
                                         !.faultType = Undefined,
                                         !.severity = Undefined,
                                         !.lastUpdated = toISOString(now),
                                         !.voltage = 230 + dv,
                                         !.current = 15 + dc]
                   ELSE poles[i]]
  /\ alerts' = SelectSeq(alerts, LAMBDA alert : alert.id # poleId)
  /\ toasts' = << Toast("success", "Issue fixed for pole " \o poleId) >>
  /\ now' = now + 1

handleFixIssue(poleId) ==
  /\ ClockRuns
  /\ \E dv \in VoltageJitter, dc \in CurrentJitter :
       poles' = [i \in DOMAIN poles |->
                   IF poles[i].id = poleId
                   THEN [poles[i] EXCEPT !.status = "healthy",
                                         !.faultType = Undefined,
                                         !.severity = Undefined,
                                         !.lastUpdated = toISOString(now),
                                         !.voltage = 230 + dv,
                                         !.current = 15 + dc]
                   ELSE poles[i]]
  /\ alerts' = SelectSeq(alerts, LAMBDA alert : alert.poleId # poleId)
  /\ toasts' = << Toast("success", "Issue fixed for pole " \o poleId) >>
  /\ now' = now + 1

\* handleIsolatePole that takes the pole out of the registry
handleIsolatePole_DropsPole(poleId) ==
  /\ ClockRuns
  /\ poles' = SelectSeq(poles, LAMBDA pole : pole.id # poleId)
  /\ toasts' = << Toast("success", "Pole " \o poleId \o " isolated") >>
  /\ now' = now + 1
  /\ UNCHANGED alerts

\* handleIsolatePole without the reset of the voltage
handleIsolatePole_KeepsVoltage(poleId) ==
  /\ ClockRuns
  /\ poles' = [i \in DOMAIN poles |->
                 IF poles[i].id = poleId
                 THEN [poles[i] EXCEPT !.status = "isolated",
                                       !.current = 0,
                                       !.isolatedBy = "Manual Control",
                                       !.isolatedAt = toISOString(now),
                                       !.lastUpdated = toISOString(now)]
                 ELSE poles[i]]
  /\ toasts' = << Toast("success", "Pole " \o poleId \o " isolated") >>
  /\ now' = now + 1
  /\ UNCHANGED alerts

\* handleIsolatePole without the reset of the current
handleIsolatePole_KeepsCurrent(poleId) ==
  /\ ClockRuns
  /\ poles' = [i \in DOMAIN poles |->
                 IF poles[i].id = poleId
                 THEN [poles[i] EXCEPT !.status = "isolated",
                                       !.voltage = 0,
                                       !.isolatedBy = "Manual Control",
                                       !.isolatedAt = toISOString(now),
                                       !.lastUpdated = toISOString(now)]
                 ELSE poles[i]]
  /\ toasts' = << Toast("success", "Pole " \o poleId \o " isolated") >>
  /\ now' = now + 1
  /\ UNCHANGED alerts

handleIsolatePole(poleId) ==
  /\ ClockRuns
  /\ poles' = [i \in DOMAIN poles |->
                 IF poles[i].id = poleId
                 THEN [poles[i] EXCEPT !.status = "isolated",
                                       !.voltage = 0,
                                       !.current = 0,
                                       !.isolatedBy = "Manual Control",
                                       !.isolatedAt = toISOString(now),
                                       !.lastUpdated = toISOString(now)]
                 ELSE poles[i]]
  /\ toasts' = << Toast("success", "Pole " \o poleId \o " isolated") >>
  /\ now' = now + 1
  /\ UNCHANGED alerts

\* handleRestorePole without the test of the pole id
handleRestorePole_RestoresAll(poleId) ==
  /\ ClockRuns
  /\ \E dv \in VoltageJitter, dc \in CurrentJitter :
       poles' = [i \in DOMAIN poles |->
                   [poles[i] EXCEPT !.status = "healthy",
                                    !.voltage = 230 + dv,
                                    !.current = 15 + dc,
                                    !.isolatedBy = Undefined,
                                    !.isolatedAt = Undefined,
                                    !.faultType = Undefined,
                                    !.severity = Undefined,
                                    !.lastUpdated = toISOString(now)]]
  /\ alerts' = SelectSeq(alerts, LAMBDA alert : alert.poleId # poleId)
  /\ toasts' = << Toast("success", "Pole " \o poleId \o " restored") >>
  /\ now' = now + 1

\* handleRestorePole without the reset of isolatedAt
handleRestorePole_KeepsIsolatedAt(poleId) ==
  /\ ClockRuns
  /\ \E dv \in VoltageJitter, dc \in CurrentJitter :
       poles' = [i \in DOMAIN poles |->
                   IF poles[i].id = poleId
                   THEN [poles[i] EXCEPT !.status = "healthy",
                                         !.voltage = 230 + dv,
                                         !.current = 15 + dc,
                                         !.isolatedBy = Undefined,
                                         !.faultType = Undefined,
                                         !.severity = Undefined,
                                         !.lastUpdated = toISOString(now)]
                   ELSE poles[i]]
  /\ alerts' = SelectSeq(alerts, LAMBDA alert : alert.poleId # poleId)
  /\ toasts' = << Toast("success", "Pole " \o poleId \o " restored") >>
  /\ now' = now + 1

handleRestorePole(poleId) ==
  /\ ClockRuns
  /\ \E dv \in VoltageJitter, dc \in CurrentJitter :
       poles' = [i \in DOMAIN poles |->
                   IF poles[i].id = poleId
                   THEN [poles[i] EXCEPT !.status = "healthy",
                                         !.voltage = 230 + dv,
                                         !.current = 15 + dc,
                                         !.isolatedBy = Undefined,
                                         !.isolatedAt = Undefined,
                                         !.faultType = Undefined,
                                         !.severity = Undefined,
                                         !.lastUpdated = toISOString(now)]
                   ELSE poles[i]]
  /\ alerts' = SelectSeq(alerts, LAMBDA alert : alert.poleId # poleId)
  /\ toasts' = << Toast("success", "Pole " \o poleId \o " restored") >>
  /\ now' = now + 1

\* handleDeleteAlert without its notification
handleDeleteAlert_Silent(alertId) ==
  /\ alerts' = SelectSeq(alerts, LAMBDA alert : alert.id # alertId)
  /\ toasts' = << >>
  /\ UNCHANGED << poles, now >>

\* handleDeleteAlert with the filter inverted
handleDeleteAlert_KeepsOnlyThat(alertId) ==
  /\ alerts' = SelectSeq(alerts, LAMBDA alert : alert.id = alertId)
  /\ toasts' = << Toast("success", "Alert deleted") >>
  /\ UNCHANGED << poles, now >>

handleDeleteAlert(alertId) ==
  /\ alerts' = SelectSeq(alerts, LAMBDA alert : alert.id # alertId)
  /\ toasts' = << Toast("success", "Alert deleted") >>
  /\ UNCHANGED << poles, now >>

\* called by the timer of IsolationModal, after its own notification
handleIsolationConfirm(emitted) ==
  /\ toasts' = Append(emitted, Toast("success", "Isolation complete"))
  /\ UNCHANGED << poles, alerts, now >>

\* handleResetConfirm that also puts the registry back to the mock data
handleResetConfirm_ResetsPoles(emitted) ==
  /\ alerts' = << >>
  /\ poles' = mockPoles
  /\ toasts' = Append(emitted, Toast("success", "System reset complete"))
  /\ UNCHANGED now

\* called by the timer of ResetModal, after its own notification
handleResetConfirm(emitted) ==
  /\ alerts' = << >>
  /\ toasts' = Append(emitted, Toast("success", "System reset complete"))
  /\ UNCHANGED << poles, now >>

(***************************************************************************)
(* The user interface.  The dialogs are modal: the page behind an open     *)
(* dialog takes no clicks.                                                 *)
(***************************************************************************)
modalFlags == << showPolePopup, showIsolationModal, showResetModal,
                 showAddIssueModal, showFixIssueModal, showManualControlsModal >>

formVars == << addForm, fixSelectedPoleId >>

isoVars == << confirmText, isoLoading >>

dataVars == << poles, alerts, now >>

NoDialogOpen ==
  /\ ~showPolePopup
  /\ ~showIsolationModal
  /\ ~showResetModal
  /\ ~showAddIssueModal
  /\ ~showFixIssueModal
  /\ ~showManualControlsModal

\* the desktop dashboard is shown and takes clicks
Desktop == ~showMobilePreview /\ NoDialogOpen

Init ==
  /\ poles = mockPoles
  /\ alerts = mockAlerts
  /\ selectedPole = NullPole
  /\ showPolePopup = FALSE
  /\ showIsolationModal = FALSE
  /\ showResetModal = FALSE
  /\ showAddIssueModal = FALSE
  /\ showFixIssueModal = FALSE
  /\ showManualControlsModal = FALSE
  /\ isolationPoleId = Null
  /\ addForm = EmptyAddForm
  /\ fixSelectedPoleId = ""
  /\ confirmText = ""
  /\ isoLoading = FALSE
  /\ resetLoading = FALSE
  /\ timers = NoTimers
  /\ showMobilePreview = FALSE
  /\ isOnline = TRUE
  /\ confirmDialog = Null
  /\ toasts = << >>
  /\ now = 0

(***************************************************************************)
(* HomePage: the mobile preview replaces the dashboard, so MapControlPanel *)
(* is unmounted and its state discarded; the next mount starts from the    *)
(* useState initialisers.  Timers of the unmounted panel stay pending, but *)
(* their state updates no longer reach a mounted component.                *)
(***************************************************************************)
ShowMobilePreview ==
  /\ Desktop
  /\ showMobilePreview' = TRUE
  /\ isOnline' = TRUE
  /\ confirmDialog' = Null
  /\ poles' = mockPoles
  /\ alerts' = mockAlerts
  /\ selectedPole' = NullPole
  /\ isolationPoleId' = Null
  /\ addForm' = EmptyAddForm
  /\ fixSelectedPoleId' = ""
  /\ confirmText' = ""
  /\ isoLoading' = FALSE
  /\ resetLoading' = FALSE
  /\ timers' = [isolate |-> 0, reset |-> 0,
                orphanIsolate |-> timers.orphanIsolate + timers.isolate,
                orphanReset |-> timers.orphanReset + timers.reset]
  /\ toasts' = << >>
  /\ UNCHANGED << modalFlags, now >>

BackToDesktop ==
  /\ showMobilePreview
  /\ confirmDialog = Null
  /\ showMobilePreview' = FALSE
  /\ isOnline' = TRUE
  /\ confirmDialog' = Null
  /\ toasts' = << >>
  /\ UNCHANGED << panelVars, timers, now >>

(***************************************************************************)
(* MapControlPanel: the map and the control panel card.                    *)
(***************************************************************************)
MarkerClick(i) ==
  /\ Desktop
  /\ handleMarkerClick(poles[i])
  /\ toasts' = << >>
  /\ UNCHANGED << dataVars, showIsolationModal, showResetModal,
                  showAddIssueModal, showFixIssueModal,
                  showManualControlsModal, isolationPoleId, formVars, isoVars,
                  resetLoading, timers, showMobilePreview, mobileVars >>

OpenManualControls ==
  /\ Desktop
  /\ showManualControlsModal' = TRUE
  /\ toasts' = << >>
  /\ UNCHANGED << dataVars, selectedPole, showPolePopup, showIsolationModal,
                  showResetModal, showAddIssueModal, showFixIssueModal,
                  isolationPoleId, formVars, isoVars, resetLoading, timers,
                  showMobilePreview, mobileVars >>

OpenAddIssue ==
  /\ Desktop
  /\ showAddIssueModal' = TRUE
  /\ toasts' = << >>
  /\ UNCHANGED << dataVars, selectedPole, showPolePopup, showIsolationModal,
                  showResetModal, showFixIssueModal, showManualControlsModal,
                  isolationPoleId, formVars, isoVars, resetLoading, timers,
                  showMobilePreview, mobileVars >>

OpenFixIssue ==
  /\ Desktop
  /\ hasActiveFaults
  /\ showFixIssueModal' = TRUE
  /\ toasts' = << >>
  /\ UNCHANGED << dataVars, selectedPole, showPolePopup, showIsolationModal,
                  showResetModal, showAddIssueModal, showManualControlsModal,
                  isolationPoleId, formVars, isoVars, resetLoading, timers,
                  showMobilePreview, mobileVars >>

\* the Remote Isolate Faulty Line button
OpenIsolation ==
  /\ Desktop
  /\ hasActiveFaults
  /\ showIsolationModal' = TRUE
  /\ toasts' = << >>
  /\ UNCHANGED << dataVars, selectedPole, showPolePopup, showResetModal,
                  showAddIssueModal, showFixIssueModal,
                  showManualControlsModal, isolationPoleId, formVars, isoVars,
                  resetLoading, timers, showMobilePreview, mobileVars >>

OpenReset ==
  /\ Desktop
  /\ showResetModal' = TRUE
  /\ toasts' = << >>
  /\ UNCHANGED << dataVars, selectedPole, showPolePopup, showIsolationModal,
                  showAddIssueModal, showFixIssueModal,
                  showManualControlsModal, isolationPoleId, formVars, isoVars,
                  resetLoading, timers, showMobilePreview, mobileVars >>

\* the trash button of an alert card; the cards are rendered only while
\* hasActiveFaults
DeleteAlert(i) ==
  /\ Desktop
  /\ hasActiveFaults
  /\ handleDeleteAlert(alerts[i].id)
  /\ UNCHANGED << selectedPole, modalFlags, isolationPoleId, formVars, isoVars,
                  resetLoading, timers, showMobilePreview, mobileVars >>

(***************************************************************************)
(* PolePopup: it renders the PoleData handed to handleMarkerClick.         *)
(***************************************************************************)
PopupOpen == ~showMobilePreview /\ showPolePopup /\ selectedPole # NullPole

uiUnchanged == << selectedPole, modalFlags, isolationPoleId, formVars, isoVars,
                  resetLoading, timers, showMobilePreview, mobileVars >>

PopupFixIssue ==
  /\ PopupOpen
  /\ selectedPole.status = "faulty"
  /\ handleFixIssue(selectedPole.id)
  /\ UNCHANGED uiUnchanged

PopupIsolateLine ==
  /\ PopupOpen
  /\ selectedPole.status \in {"faulty", "healthy"}
  /\ handleIsolatePole(selectedPole.id)
  /\ UNCHANGED uiUnchanged

PopupRestoreLine ==
  /\ PopupOpen
  /\ selectedPole.status = "isolated"
  /\ handleRestorePole(selectedPole.id)
  /\ UNCHANGED uiUnchanged

ClosePolePopup ==
  /\ PopupOpen
  /\ showPolePopup' = FALSE
  /\ toasts' = << >>
  /\ UNCHANGED << dataVars, selectedPole, showIsolationModal, showResetModal,
                  showAddIssueModal, showFixIssueModal,
                  showManualControlsModal, isolationPoleId, formVars, isoVars,
                  resetLoading, timers, showMobilePreview, mobileVars >>

(***************************************************************************)
(* AddIssueModal.                                                          *)
(***************************************************************************)
AddIssueOpen == ~showMobilePreview /\ showAddIssueModal

addUnchanged == << dataVars, selectedPole, modalFlags, isolationPoleId,
                   fixSelectedPoleId, isoVars, resetLoading, timers,
                   showMobilePreview, mobileVars >>

\* the pole select offers the poles that are healthy now
AddIssueSelectPole(i) ==
  /\ AddIssueOpen
  /\ poles[i].status = "healthy"
  /\ addForm' = [addForm EXCEPT !.selectedPoleId = poles[i].id]
  /\ toasts' = << >>
  /\ UNCHANGED addUnchanged

AddIssueSelectFaultType(ft) ==
  /\ AddIssueOpen
  /\ addForm' = [addForm EXCEPT !.faultType = ft]
  /\ toasts' = << >>
  /\ UNCHANGED addUnchanged

AddIssueSelectSeverity(sev) ==
  /\ AddIssueOpen
  /\ addForm' = [addForm EXCEPT !.severity = sev]
  /\ toasts' = << >>
  /\ UNCHANGED addUnchanged

\* AddIssueModal.handleSubmit that clears the form when it rejects it
AddIssueSubmit_ClearsFormOnError ==
  /\ AddIssueOpen
  /\ IF addForm.selectedPoleId = "" \/ addForm.faultType = ""
     THEN /\ toasts' = << Toast("error", "Please fill in all required fields") >>
          /\ addForm' = EmptyAddForm
          /\ UNCHANGED << dataVars, showAddIssueModal >>
     ELSE /\ handleAddIssue(addForm.selectedPoleId,
                            [faultType |-> addForm.faultType,
                             severity |-> addForm.severity])
          /\ addForm' = EmptyAddForm
          /\ showAddIssueModal' = FALSE
  /\ UNCHANGED << selectedPole, showPolePopup, showIsolationModal,
                  showResetModal, showFixIssueModal, showManualControlsModal,
                  isolationPoleId, fixSelectedPoleId, isoVars, resetLoading,
                  timers, showMobilePreview, mobileVars >>

\* AddIssueModal.handleSubmit without the validation of the required fields
AddIssueSubmit_NoValidation ==
  /\ AddIssueOpen
  /\ handleAddIssue(addForm.selectedPoleId,
                    [faultType |-> addForm.faultType,
                     severity |-> addForm.severity])
  /\ addForm' = EmptyAddForm
  /\ showAddIssueModal' = FALSE
  /\ UNCHANGED << selectedPole, showPolePopup, showIsolationModal,
                  showResetModal, showFixIssueModal, showManualControlsModal,
                  isolationPoleId, fixSelectedPoleId, isoVars, resetLoading,
                  timers, showMobilePreview, mobileVars >>

\* AddIssueModal.handleSubmit
AddIssueSubmit ==
  /\ AddIssueOpen
  /\ IF addForm.selectedPoleId = "" \/ addForm.faultType = ""
     THEN /\ toasts' = << Toast("error", "Please fill in all required fields") >>
          /\ UNCHANGED << dataVars, addForm, showAddIssueModal >>
     ELSE /\ handleAddIssue(addForm.selectedPoleId,
                            [faultType |-> addForm.faultType,
                             severity |-> addForm.severity])
          /\ addForm' = EmptyAddForm
          /\ showAddIssueModal' = FALSE
  /\ UNCHANGED << selectedPole, showPolePopup, showIsolationModal,
                  showResetModal, showFixIssueModal, showManualControlsModal,
                  isolationPoleId, fixSelectedPoleId, isoVars, resetLoading,
                  timers, showMobilePreview, mobileVars >>

AddIssueCancel ==
  /\ AddIssueOpen
  /\ showAddIssueModal' = FALSE
  /\ toasts' = << >>
  /\ UNCHANGED << dataVars, selectedPole, showPolePopup, showIsolationModal,
                  showResetModal, showFixIssueModal, showManualControlsModal,
                  isolationPoleId, formVars, isoVars, resetLoading, timers,
                  showMobilePreview, mobileVars >>

(***************************************************************************)
(* FixIssueModal.                                                          *)
(***************************************************************************)
FixIssueOpen == ~showMobilePreview /\ showFixIssueModal

\* the pole select offers faultyPoles
FixIssueSelectPole(i) ==
  /\ FixIssueOpen
  /\ poles[i].status = "faulty"
  /\ fixSelectedPoleId' = poles[i].id
  /\ toasts' = << >>
  /\ UNCHANGED << dataVars, selectedPole, modalFlags, isolationPoleId, addForm,
                  isoVars, resetLoading, timers, showMobilePreview, mobileVars >>

\* FixIssueModal.handleSubmit; the button is disabled while nothing is selected
FixIssueSubmit ==
  /\ FixIssueOpen
  /\ fixSelectedPoleId # ""
  /\ IF fixSelectedPoleId = ""
     THEN /\ toasts' = << Toast("error", "Please select a pole to fix") >>
          /\ UNCHANGED << dataVars, fixSelectedPoleId, showFixIssueModal >>
     ELSE /\ handleFixIssue(fixSelectedPoleId)
          /\ fixSelectedPoleId' = ""
          /\ showFixIssueModal' = FALSE
  /\ UNCHANGED << selectedPole, showPolePopup, showIsolationModal,
                  showResetModal, showAddIssueModal, showManualControlsModal,
                  isolationPoleId, addForm, isoVars, resetLoading, timers,
                  showMobilePreview, mobileVars >>

FixIssueCancel ==
  /\ FixIssueOpen
  /\ showFixIssueModal' = FALSE
  /\ toasts' = << >>
  /\ UNCHANGED << dataVars, selectedPole, showPolePopup, showIsolationModal,
                  showResetModal, showAddIssueModal, showManualControlsModal,
                  isolationPoleId, formVars, isoVars, resetLoading, timers,
                  showMobilePreview, mobileVars >>

(***************************************************************************)
(* ManualControlsModal: one row of buttons per pole, by its status now.    *)
(***************************************************************************)
ManualOpen == ~showMobilePreview /\ showManualControlsModal

\* onAddIssue of MapControlPanel: the pole id of the row is dropped
ManualAddIssue(i) ==
  /\ ManualOpen
  /\ poles[i].status = "healthy"
  /\ showManualControlsModal' = FALSE
  /\ showAddIssueModal' = TRUE
  /\ toasts' = << >>
  /\ UNCHANGED << dataVars, selectedPole, showPolePopup, showIsolationModal,
                  showResetModal, showFixIssueModal, isolationPoleId, formVars,
                  isoVars, resetLoading, timers, showMobilePreview, mobileVars >>

ManualIsolate(i) ==
  /\ ManualOpen
  /\ poles[i].status \in {"healthy", "faulty"}
  /\ handleIsolatePole(poles[i].id)
  /\ UNCHANGED uiUnchanged

ManualFix(i) ==
  /\ ManualOpen
  /\ poles[i].status = "faulty"
  /\ handleFixIssue(poles[i].id)
  /\ UNCHANGED uiUnchanged

\* Restore of an isolated pole, Complete Maintenance of one in maintenance
ManualRestore(i) ==
  /\ ManualOpen
  /\ poles[i].status \in {"isolated", "maintenance"}
  /\ handleRestorePole(poles[i].id)
  /\ UNCHANGED uiUnchanged

CloseManualControls ==
  /\ ManualOpen
  /\ showManualControlsModal' = FALSE
  /\ toasts' = << >>
  /\ UNCHANGED << dataVars, selectedPole, showPolePopup, showIsolationModal,
                  showResetModal, showAddIssueModal, showFixIssueModal,
                  isolationPoleId, formVars, isoVars, resetLoading, timers,
                  showMobilePreview, mobileVars >>

(***************************************************************************)
(* IsolationModal.  Its effect on isOpen clears confirmText and isLoading  *)
(* whenever the dialog is closed.                                          *)
(***************************************************************************)
IsolationOpen == ~showMobilePreview /\ showIsolationModal

\* the input is disabled while isLoading
IsolationTypeText(text) ==
  /\ IsolationOpen
  /\ ~isoLoading
  /\ confirmText' = text
  /\ toasts' = << >>
  /\ UNCHANGED << dataVars, selectedPole, modalFlags, isolationPoleId, formVars,
                  isoLoading, resetLoading, timers, showMobilePreview, mobileVars >>

\* IsolationModal.handleConfirm comparing the text without regard to case
IsolationModal_handleConfirm_IgnoresCase ==
  IF confirmText \notin {"ISOLATE", "isolate"}
  THEN /\ toasts' = << >>
       /\ UNCHANGED << isoLoading, timers >>
  ELSE /\ isoLoading' = TRUE
       /\ toasts' = << Toast("loading", "Isolating faulty line...") >>
       /\ timers' = [timers EXCEPT !.isolate = @ + 1]

\* IsolationModal.handleConfirm up to its await
IsolationModal_handleConfirm ==
  IF confirmText # "ISOLATE"
  THEN /\ toasts' = << >>
       /\ UNCHANGED << isoLoading, timers >>
  ELSE /\ isoLoading' = TRUE
       /\ toasts' = << Toast("loading", "Isolating faulty line...") >>
       /\ timers' = [timers EXCEPT !.isolate = @ + 1]

\* the Confirm Isolation button; it is disabled unless the text is ISOLATE
\* and nothing is loading
IsolationConfirm ==
  /\ IsolationOpen
  /\ confirmText = "ISOLATE" /\ ~isoLoading
  /\ PendingTimers < MaxTimers
  /\ IsolationModal_handleConfirm
  /\ UNCHANGED << dataVars, selectedPole, modalFlags, isolationPoleId, formVars,
                  confirmText, resetLoading, showMobilePreview, mobileVars >>

\* onOpenChange of the dialog (Cancel, Escape, the close button)
IsolationClose ==
  /\ IsolationOpen
  /\ showIsolationModal' = FALSE
  /\ confirmText' = ""
  /\ isoLoading' = FALSE
  /\ toasts' = << >>
  /\ UNCHANGED << dataVars, selectedPole, showPolePopup, showResetModal,
                  showAddIssueModal, showFixIssueModal,
                  showManualControlsModal, isolationPoleId, formVars,
                  resetLoading, timers, showMobilePreview, mobileVars >>

\* IsolationModal.handleConfirm after its await of 2000 ms
IsolationTimerFires ==
  /\ timers.isolate > 0
  /\ timers' = [timers EXCEPT !.isolate = @ - 1]
  /\ isoLoading' = FALSE
  /\ confirmText' = ""
  /\ handleIsolationConfirm(
       << Toast("success", "Line isolated successfully") >>)
  /\ showIsolationModal' = FALSE
  /\ UNCHANGED << selectedPole, showPolePopup, showResetModal,
                  showAddIssueModal, showFixIssueModal,
                  showManualControlsModal, isolationPoleId, formVars,
                  resetLoading, showMobilePreview, mobileVars >>

\* the same continuation, of a panel that was unmounted in the meantime
OrphanIsolationTimerFires ==
  /\ timers.orphanIsolate > 0
  /\ timers' = [timers EXCEPT !.orphanIsolate = @ - 1]
  /\ toasts' = << Toast("success", "Line isolated successfully"),
                  Toast("success", "Isolation complete") >>
  /\ UNCHANGED << panelVars, now, showMobilePreview, mobileVars >>

(***************************************************************************)
(* ResetModal.                                                             *)
(***************************************************************************)
ResetOpen == ~showMobilePreview /\ showResetModal

\* ResetModal.handleConfirm up to its await; the button is disabled while
\* isLoading
ResetConfirm ==
  /\ ResetOpen
  /\ ~resetLoading
  /\ PendingTimers < MaxTimers
  /\ resetLoading' = TRUE
  /\ toasts' = << Toast("loading", "Resetting system...") >>
  /\ timers' = [timers EXCEPT !.reset = @ + 1]
  /\ UNCHANGED << dataVars, selectedPole, modalFlags, isolationPoleId, formVars,
                  isoVars, showMobilePreview, mobileVars >>

\* onOpenChange of the dialog (Cancel, Escape, the close button)
ResetClose ==
  /\ ResetOpen
  /\ showResetModal' = FALSE
  /\ toasts' = << >>
  /\ UNCHANGED << dataVars, selectedPole, showPolePopup, showIsolationModal,
                  showAddIssueModal, showFixIssueModal,
                  showManualControlsModal, isolationPoleId, formVars, isoVars,
                  resetLoading, timers, showMobilePreview, mobileVars >>

\* the continuation dropped once the dialog has been closed
ResetTimerFires_OnlyWhileOpen ==
  /\ timers.reset > 0
  /\ showResetModal
  /\ timers' = [timers EXCEPT !.reset = @ - 1]
  /\ resetLoading' = FALSE
  /\ handleResetConfirm(<< Toast("success", "System reset completed") >>)
  /\ showResetModal' = FALSE
  /\ UNCHANGED << selectedPole, showPolePopup, showIsolationModal,
                  showAddIssueModal, showFixIssueModal,
                  showManualControlsModal, isolationPoleId, formVars, isoVars,
                  showMobilePreview, mobileVars >>

\* ResetModal.handleConfirm after its await of 3000 ms
ResetTimerFires ==
  /\ timers.reset > 0
  /\ timers' = [timers EXCEPT !.reset = @ - 1]
  /\ resetLoading' = FALSE
  /\ handleResetConfirm(<< Toast("success", "System reset completed") >>)
  /\ showResetModal' = FALSE
  /\ UNCHANGED << selectedPole, showPolePopup, showIsolationModal,
                  showAddIssueModal, showFixIssueModal,
                  showManualControlsModal, isolationPoleId, formVars, isoVars,
                  showMobilePreview, mobileVars >>

\* the same continuation, of a panel that was unmounted in the meantime
OrphanResetTimerFires ==
  /\ timers.orphanReset > 0
  /\ timers' = [timers EXCEPT !.orphanReset = @ - 1]
  /\ toasts' = << Toast("success", "System reset completed"),
                  Toast("success", "System reset complete") >>
  /\ UNCHANGED << panelVars, now, showMobilePreview, mobileVars >>

(***************************************************************************)
(* MobileFieldAppShell, mounted while the mobile preview is shown.  Its    *)
(* state is isOnline and the type of confirmDialog; nothing else is kept.  *)
(***************************************************************************)
MobileDialogTypes == {"isolate", "reset"}

\* the listeners of the window events online and offline
WindowOnline ==
  /\ showMobilePreview
  /\ isOnline' = TRUE
  /\ toasts' = << >>
  /\ UNCHANGED << panelVars, timers, now, showMobilePreview, confirmDialog >>

WindowOffline ==
  /\ showMobilePreview
  /\ isOnline' = FALSE
  /\ toasts' = << >>
  /\ UNCHANGED << panelVars, timers, now, showMobilePreview, confirmDialog >>

\* MobileFieldAppShell.handleIsolate
handleIsolate ==
  /\ confirmDialog' = Null
  /\ IF ~isOnline
     THEN toasts' = << Toast("info", "Action queued - will execute when online") >>
     ELSE toasts' = << Toast("success",
                             "Remote isolation initiated successfully") >>

\* MobileFieldAppShell.handleReset
handleReset ==
  /\ confirmDialog' = Null
  /\ IF ~isOnline
     THEN toasts' = << Toast("info", "Action queued - will execute when online") >>
     ELSE toasts' = << Toast("success", "System reset completed successfully") >>

\* the Isolate and Reset buttons of the drawer
MobileOpenConfirm(type) ==
  /\ showMobilePreview
  /\ confirmDialog = Null
  /\ confirmDialog' = type
  /\ toasts' = << >>
  /\ UNCHANGED << panelVars, timers, now, showMobilePreview, isOnline >>

\* Cancel, or onOpenChange of the confirmation dialog
MobileCancelConfirm ==
  /\ showMobilePreview
  /\ confirmDialog # Null
  /\ confirmDialog' = Null
  /\ toasts' = << >>
  /\ UNCHANGED << panelVars, timers, now, showMobilePreview, isOnline >>

\* the Confirm button of the confirmation dialog
MobileConfirm ==
  /\ showMobilePreview
  /\ confirmDialog # Null
  /\ IF confirmDialog = "isolate" THEN handleIsolate ELSE handleReset
  /\ UNCHANGED << panelVars, timers, now, showMobilePreview, isOnline >>

(***************************************************************************)
(* The specification.                                                      *)
(***************************************************************************)
Next ==
  \/ ShowMobilePreview
  \/ BackToDesktop
  \/ \E i \in DOMAIN poles : MarkerClick(i)
  \/ OpenManualControls
  \/ OpenAddIssue
  \/ OpenFixIssue
  \/ OpenIsolation
  \/ OpenReset
  \/ \E i \in DOMAIN alerts : DeleteAlert(i)
  \/ PopupFixIssue
  \/ PopupIsolateLine
  \/ PopupRestoreLine
  \/ ClosePolePopup
  \/ \E i \in DOMAIN poles : AddIssueSelectPole(i)
  \/ \E ft \in FaultTypes : AddIssueSelectFaultType(ft)
  \/ \E sev \in Severities : AddIssueSelectSeverity(sev)
  \/ AddIssueSubmit
  \/ AddIssueCancel
  \/ \E i \in DOMAIN poles : FixIssueSelectPole(i)
  \/ FixIssueSubmit
  \/ FixIssueCancel
  \/ \E i \in DOMAIN poles : ManualAddIssue(i)
  \/ \E i \in DOMAIN poles : ManualIsolate(i)
  \/ \E i \in DOMAIN poles : ManualFix(i)
  \/ \E i \in DOMAIN poles : ManualRestore(i)
  \/ CloseManualControls
  \/ \E text \in ConfirmTexts : IsolationTypeText(text)
  \/ IsolationConfirm
  \/ IsolationClose
  \/ IsolationTimerFires
  \/ OrphanIsolationTimerFires
  \/ ResetConfirm
  \/ ResetClose
  \/ ResetTimerFires
  \/ OrphanResetTimerFires
  \/ WindowOnline
  \/ WindowOffline
  \/ \E type \in MobileDialogTypes : MobileOpenConfirm(type)
  \/ MobileCancelConfirm
  \/ MobileConfirm

Spec == Init /\ [][Next]_vars

(***************************************************************************)
(* The state space of Spec is the product of the leftovers of every dialog *)
(* with the registry, so it is explored in slices: each specification      *)
(* below is Init with a subset of the actions above, or with the handlers  *)
(* applied directly.                                                       *)
(*                                                                         *)
(* The control operations on their own (section 4.1 of the specification): *)
(* a handler applied to any pole of the registry, whatever its status.     *)
(***************************************************************************)
Isolate(poleId) == handleIsolatePole(poleId) /\ UNCHANGED uiUnchanged

Restore(poleId) == handleRestorePole(poleId) /\ UNCHANGED uiUnchanged

Fix(poleId) == handleFixIssue(poleId) /\ UNCHANGED uiUnchanged

AddIssue(poleId, issueData) ==
  handleAddIssue(poleId, issueData) /\ UNCHANGED uiUnchanged

Reset ==
  /\ handleResetConfirm(<< Toast("success", "System reset completed") >>)
  /\ UNCHANGED uiUnchanged

IssueData == [faultType : FaultTypes, severity : Severities]

NextProcessor ==
  \/ \E p \in PoleIds : Isolate(p)
  \/ \E p \in PoleIds : Restore(p)
  \/ \E p \in PoleIds : Fix(p)
  \/ \E p \in PoleIds, data \in IssueData : AddIssue(p, data)
  \/ Reset

SpecProcessor == Init /\ [][NextProcessor]_vars

\* the alert list: alerts added, removed by a fix, dismissed on their card
NextAlertLog ==
  \/ \E p \in PoleIds, data \in IssueData : AddIssue(p, data)
  \/ \E p \in PoleIds : Fix(p)
  \/ \E i \in DOMAIN alerts : DeleteAlert(i)

SpecAlertLog == Init /\ [][NextAlertLog]_vars

\* the map, the pole popup and the mobile preview
NextPopup ==
  \/ \E i \in DOMAIN poles : MarkerClick(i)
  \/ PopupFixIssue
  \/ PopupIsolateLine
  \/ PopupRestoreLine
  \/ ClosePolePopup
  \/ ShowMobilePreview
  \/ BackToDesktop

SpecPopup == Init /\ [][NextPopup]_vars

\* every way of submitting a request, each dialog left by submitting
NextRequests ==
  \/ OpenManualControls
  \/ OpenAddIssue
  \/ OpenFixIssue
  \/ OpenIsolation
  \/ OpenReset
  \/ \E i \in DOMAIN poles : AddIssueSelectPole(i)
  \/ \E ft \in FaultTypes : AddIssueSelectFaultType(ft)
  \/ \E sev \in Severities : AddIssueSelectSeverity(sev)
  \/ AddIssueSubmit
  \/ \E i \in DOMAIN poles : FixIssueSelectPole(i)
  \/ FixIssueSubmit
  \/ \E i \in DOMAIN poles : ManualAddIssue(i)
  \/ \E i \in DOMAIN poles : ManualIsolate(i)
  \/ \E i \in DOMAIN poles : ManualFix(i)
  \/ \E i \in DOMAIN poles : ManualRestore(i)
  \/ CloseManualControls
  \/ \E text \in ConfirmTexts : IsolationTypeText(text)
  \/ IsolationConfirm
  \/ IsolationTimerFires
  \/ ResetConfirm
  \/ ResetTimerFires

SpecRequests == Init /\ [][NextRequests]_vars

\* the forms of the Add Issue and Fix Issue dialogs, left by Submit or by
\* Cancel, and the Manual Control Center
NextForms ==
  \/ OpenAddIssue
  \/ \E i \in DOMAIN poles : AddIssueSelectPole(i)
  \/ \E ft \in FaultTypes : AddIssueSelectFaultType(ft)
  \/ AddIssueSubmit
  \/ AddIssueCancel
  \/ OpenManualControls
  \/ \E i \in DOMAIN poles : ManualIsolate(i)
  \/ \E i \in DOMAIN poles : ManualFix(i)
  \/ \E i \in DOMAIN poles : ManualRestore(i)
  \/ CloseManualControls

SpecForms == Init /\ [][NextForms]_vars

\* the control operations, each on the poles whose status now makes the
\* dashboard offer it, and the dismissal of alerts
NextOperations ==
  \/ \E i \in DOMAIN poles :
       poles[i].status \in {"healthy", "faulty"} /\ Isolate(poles[i].id)
  \/ \E i \in DOMAIN poles :
       poles[i].status \in {"isolated", "maintenance"} /\ Restore(poles[i].id)
  \/ \E i \in DOMAIN poles :
       poles[i].status = "faulty" /\ Fix(poles[i].id)
  \/ \E i \in DOMAIN poles, data \in IssueData :
       poles[i].status = "healthy" /\ AddIssue(poles[i].id, data)
  \/ Reset
  \/ \E i \in DOMAIN alerts : DeleteAlert(i)

SpecOperations == Init /\ [][NextOperations]_vars

\* IsolationModal.handleConfirm applied whatever the text is and whether or
\* not the button is enabled
ConfirmIsolation ==
  /\ IsolationOpen
  /\ PendingTimers < MaxTimers
  /\ IsolationModal_handleConfirm
  /\ UNCHANGED << dataVars, selectedPole, modalFlags, isolationPoleId, formVars,
                  confirmText, resetLoading, showMobilePreview, mobileVars >>

\* the isolation dialog, next to the map and the pole popup
NextIsolationModal ==
  \/ OpenIsolation
  \/ \E text \in ConfirmTexts : IsolationTypeText(text)
  \/ ConfirmIsolation
  \/ IsolationClose
  \/ IsolationTimerFires
  \/ \E i \in DOMAIN poles : MarkerClick(i)
  \/ PopupFixIssue
  \/ PopupIsolateLine
  \/ PopupRestoreLine
  \/ ClosePolePopup

SpecIsolationModal == Init /\ [][NextIsolationModal]_vars

\* the reset dialog and the operations on the alert list; a timer that was
\* started fires
NextReset ==
  \/ OpenReset
  \/ ResetConfirm
  \/ ResetClose
  \/ ResetTimerFires
  \/ OpenAddIssue
  \/ \E i \in DOMAIN poles : AddIssueSelectPole(i)
  \/ \E ft \in FaultTypes : AddIssueSelectFaultType(ft)
  \/ AddIssueSubmit
  \/ OpenFixIssue
  \/ \E i \in DOMAIN poles : FixIssueSelectPole(i)
  \/ FixIssueSubmit
  \/ \E i \in DOMAIN alerts : DeleteAlert(i)

SpecReset == Init /\ [][NextReset]_vars /\ WF_vars(ResetTimerFires)

\* the mobile shell, next to the map and the pole popup; the browser
\* reports the connection when it is back
NextMobile ==
  \/ ShowMobilePreview
  \/ BackToDesktop
  \/ WindowOnline
  \/ WindowOffline
  \/ \E type \in MobileDialogTypes : MobileOpenConfirm(type)
  \/ MobileCancelConfirm
  \/ MobileConfirm
  \/ \E i \in DOMAIN poles : MarkerClick(i)
  \/ PopupFixIssue
  \/ PopupIsolateLine
  \/ PopupRestoreLine
  \/ ClosePolePopup

SpecMobile == Init /\ [][NextMobile]_vars /\ WF_vars(WindowOnline)

\* the isolation dialog as the user drives it, closed during the delay and
\* opened again, next to the Manual Control Center
NextRemoteIsolation ==
  \/ OpenIsolation
  \/ \E text \in ConfirmTexts : IsolationTypeText(text)
  \/ IsolationConfirm
  \/ IsolationClose
  \/ IsolationTimerFires
  \/ OpenManualControls
  \/ \E i \in DOMAIN poles : ManualIsolate(i)
  \/ \E i \in DOMAIN poles : ManualFix(i)
  \/ \E i \in DOMAIN poles : ManualRestore(i)
  \/ CloseManualControls

SpecRemoteIsolation == Init /\ [][NextRemoteIsolation]_vars

\* the pole-targeted operations called with the id of any pole of the
\* registry or with an id that is not in it
TargetIds == PoleIds \cup {"P999"}

NextTargets ==
  \/ \E p \in TargetIds : Isolate(p)
  \/ \E p \in TargetIds : Restore(p)
  \/ \E p \in TargetIds : Fix(p)
  \/ \E p \in TargetIds, data \in IssueData : AddIssue(p, data)

SpecTargets == Init /\ [][NextTargets]_vars

(***************************************************************************)
(* Properties.                                                             *)
(***************************************************************************)
\* the pole with this id in a registry
Pole(registry, poleId) ==
  registry[CHOOSE i \in DOMAIN registry : registry[i].id = poleId]

\* the alerts of a list that are not of this pole, in their order
RECURSIVE AlertsOfOthers(_, _)
AlertsOfOthers(list, poleId) ==
  IF list = << >> THEN << >>
  ELSE IF Head(list).poleId = poleId THEN AlertsOfOthers(Tail(list), poleId)
       ELSE << Head(list) >> \o AlertsOfOthers(Tail(list), poleId)

\* the alerts of a list that are of this pole, in their order
RECURSIVE AlertsOf(_, _)
AlertsOf(list, poleId) ==
  IF list = << >> THEN << >>
  ELSE IF Head(list).poleId = poleId
       THEN << Head(list) >> \o AlertsOf(Tail(list), poleId)
       ELSE AlertsOf(Tail(list), poleId)

\* a list without its i-th element
WithoutIndex(list, i) == SubSeq(list, 1, i - 1) \o SubSeq(list, i + 1, Len(list))

\* the readings a fix or a restore writes: 230 + [0,10) and 15 + [0,5)
NominalReadings(pole) ==
  /\ pole.voltage >= 230 /\ pole.voltage < 240
  /\ pole.current >= 15 /\ pole.current < 20

\* C1: isolate(poleId), for every pole of the registry and every prior
\* status, leaves that pole isolated, with voltage 0, current 0, isolatedBy
\* "Manual Control" and isolatedAt set (to the time of the call).
C1_IsolateSetsIsolated ==
  [][\A p \in PoleIds :
       handleIsolatePole(p) =>
         LET pole == Pole(poles', p)
         IN /\ pole.status = "isolated"
            /\ pole.voltage = 0
            /\ pole.current = 0
            /\ pole.isolatedBy = "Manual Control"
            /\ pole.isolatedAt # Undefined
            /\ pole.isolatedAt = toISOString(now)]_vars

\* a pole in maintenance, with non-zero readings, has just been isolated
C1_Witness ==
  /\ toasts = << Toast("success", "Pole P005 isolated") >>
  /\ Pole(poles, "P005").status = "isolated"
  /\ Pole(poles, "P005").voltage = 0
  /\ Pole(poles, "P003").isolatedBy = "Admin"

\* C2: in every reachable state every pole that is isolated or in
\* maintenance has voltage 0 and current 0.
C2_DeenergisedPolesReportZero ==
  \A i \in DOMAIN poles :
    poles[i].status \in {"isolated", "maintenance"} =>
      poles[i].voltage = 0 /\ poles[i].current = 0

\* C3: addIssue(poleId, data) makes the pole faulty with the fault type and
\* severity of data and creates exactly one alert, with that pole id, that
\* severity and createdBy manual, at the head of the list; the alerts that
\* were there follow it unchanged, so the list is longer by one.
C3_AddIssueCreatesAlertAtHead ==
  [][\A p \in PoleIds, data \in IssueData :
       handleAddIssue(p, data) =>
         /\ Pole(poles', p).status = "faulty"
         /\ Pole(poles', p).faultType = data.faultType
         /\ Pole(poles', p).severity = data.severity
         /\ Len(alerts') = Len(alerts) + 1
         /\ Head(alerts').poleId = p
         /\ Head(alerts').severity = data.severity
         /\ Head(alerts').createdBy = "manual"
         /\ Tail(alerts') = alerts]_vars

\* a manual alert stands before the two alerts of the initial list
C3_Witness ==
  /\ Len(alerts) = 3
  /\ Head(alerts).createdBy = "manual"
  /\ Head(alerts).severity = "high"
  /\ Tail(alerts) = mockAlerts
  /\ Pole(poles, Head(alerts).poleId).status = "faulty"
  /\ Pole(poles, Head(alerts).poleId).severity = "high"

\* C4: fix(poleId) leaves the pole healthy, without fault type and severity
\* and with nominal non-zero readings; no alert of that pole is left and
\* the alerts of the other poles are kept in their order.
C4_FixClearsFaultAndAlerts ==
  [][\A p \in PoleIds :
       handleFixIssue(p) =>
         /\ Pole(poles', p).status = "healthy"
         /\ Pole(poles', p).faultType = Undefined
         /\ Pole(poles', p).severity = Undefined
         /\ NominalReadings(Pole(poles', p))
         /\ \A k \in DOMAIN alerts' : alerts'[k].poleId # p
         /\ alerts' = AlertsOfOthers(alerts, p)]_vars

\* P001 was fixed: its alert is gone and the alert of P003 is still there
C4_Witness ==
  /\ toasts = << Toast("success", "Issue fixed for pole P001") >>
  /\ Pole(poles, "P001").status = "healthy"
  /\ alerts = << mockAlerts[2] >>

\* C5: restore(poleId) leaves the pole healthy, with nominal non-zero
\* readings and without isolatedBy, isolatedAt, fault type and severity; no
\* alert of that pole is left and the alerts of the other poles are kept in
\* their order.
C5_RestoreClearsIsolationAndAlerts ==
  [][\A p \in PoleIds :
       handleRestorePole(p) =>
         /\ Pole(poles', p).status = "healthy"
         /\ NominalReadings(Pole(poles', p))
         /\ Pole(poles', p).isolatedBy = Undefined
         /\ Pole(poles', p).isolatedAt = Undefined
         /\ Pole(poles', p).faultType = Undefined
         /\ Pole(poles', p).severity = Undefined
         /\ \A k \in DOMAIN alerts' : alerts'[k].poleId # p
         /\ alerts' = AlertsOfOthers(alerts, p)]_vars

\* P003, isolated by Admin, was restored: its alert is gone and the alert
\* of P001 is still there
C5_Witness ==
  /\ toasts = << Toast("success", "Pole P003 restored") >>
  /\ Pole(poles, "P003").status = "healthy"
  /\ Pole(poles, "P003").isolatedBy = Undefined
  /\ alerts = << mockAlerts[1] >>

\* C6: dismissing an alert removes that alert and nothing else: the other
\* alerts stay in their order and no pole changes.
C6_DismissRemovesOnlyThatAlert ==
  [][\A i \in DOMAIN alerts :
       handleDeleteAlert(alerts[i].id) =>
         /\ alerts' = WithoutIndex(alerts, i)
         /\ Len(alerts') = Len(alerts) - 1
         /\ poles' = poles]_vars

\* an alert between two others was dismissed
C6_Witness ==
  /\ toasts = << Toast("success", "Alert deleted") >>
  /\ Len(alerts) = 2
  /\ alerts[1].createdBy = "manual"
  /\ alerts[2] = mockAlerts[2]

\* the status of the pole changed in this step
StatusMutated(poleId) ==
  Pole(poles', poleId).status # Pole(poles, poleId).status

\* C7: each of isolate, restore, fix, addIssue and reset, applied where the
\* interface offers it, mutates the status of a pole and also the alerts of
\* the affected pole.
C7_EveryOperationMutatesPoleAndAlerts ==
  [][/\ \A p \in PoleIds :
          /\ (handleIsolatePole(p)
                /\ Pole(poles, p).status \in {"healthy", "faulty"})
               => StatusMutated(p) /\ AlertsOf(alerts', p) # AlertsOf(alerts, p)
          /\ (handleRestorePole(p)
                /\ Pole(poles, p).status \in {"isolated", "maintenance"})
               => StatusMutated(p) /\ AlertsOf(alerts', p) # AlertsOf(alerts, p)
          /\ (handleFixIssue(p) /\ Pole(poles, p).status = "faulty")
               => StatusMutated(p) /\ AlertsOf(alerts', p) # AlertsOf(alerts, p)
          /\ \A data \in IssueData :
               (handleAddIssue(p, data) /\ Pole(poles, p).status = "healthy")
                 => StatusMutated(p)
                    /\ AlertsOf(alerts', p) # AlertsOf(alerts, p)
     /\ handleResetConfirm(<< Toast("success", "System reset completed") >>)
          => (\E p \in PoleIds : StatusMutated(p)) /\ alerts' # alerts]_vars

\* C7, amended: isolate sets the pole isolated and leaves the alert list as
\* it is; restore and fix set the pole healthy and remove the alerts of that
\* pole, if there are any, and no other alert; addIssue sets the pole faulty
\* and adds one alert of that pole; reset empties the alert list and
\* changes no pole.
C7_OperationsMutatePoleOrAlerts ==
  [][/\ \A p \in PoleIds :
          /\ handleIsolatePole(p)
               => Pole(poles', p).status = "isolated" /\ alerts' = alerts
          /\ handleRestorePole(p)
               => /\ Pole(poles', p).status = "healthy"
                  /\ AlertsOf(alerts', p) = << >>
                  /\ AlertsOfOthers(alerts', p) = AlertsOfOthers(alerts, p)
          /\ handleFixIssue(p)
               => /\ Pole(poles', p).status = "healthy"
                  /\ AlertsOf(alerts', p) = << >>
                  /\ AlertsOfOthers(alerts', p) = AlertsOfOthers(alerts, p)
          /\ \A data \in IssueData :
               handleAddIssue(p, data)
                 => /\ Pole(poles', p).status = "faulty"
                    /\ Len(AlertsOf(alerts', p)) = Len(AlertsOf(alerts, p)) + 1
                    /\ AlertsOfOthers(alerts', p) = AlertsOfOthers(alerts, p)
     /\ handleResetConfirm(<< Toast("success", "System reset completed") >>)
          => alerts' = << >> /\ poles' = poles]_vars

\* P001 was isolated and its alert is still in the list; an earlier
\* operation had changed another pole
C7_Witness ==
  /\ toasts = << Toast("success", "Pole P001 isolated") >>
  /\ Pole(poles, "P001").status = "isolated"
  /\ alerts = mockAlerts
  /\ \E i \in DOMAIN poles : poles[i].id # "P001" /\ poles[i] # mockPoles[i]

\* C8: no control operation has an error outcome: no request submitted
\* through the interface is rejected.
C8_NoRequestIsRejected ==
  \A k \in DOMAIN toasts : toasts[k].kind # "error"

\* the step emits only success notifications, and at least one
Succeeds ==
  /\ toasts' # << >>
  /\ \A k \in DOMAIN toasts' : toasts'[k].kind = "success"

AddFormIncomplete == addForm.selectedPoleId = "" \/ addForm.faultType = ""

\* C8, amended: the only error outcome is the validation of the Add Issue
\* modal: a submission without a pole or without a fault type is rejected
\* with an error notification and changes neither poles nor alerts; every
\* other request (Add Issue with both fields, Fix Issue, the buttons of the
\* Manual Control Center, a confirmed isolation, a confirmed reset) runs its
\* handler and ends with success notifications.
C8_OnlyAddIssueValidationRejects ==
  [][/\ (\E k \in DOMAIN toasts' : toasts'[k].kind = "error")
          => /\ showAddIssueModal /\ showAddIssueModal'
             /\ AddFormIncomplete
             /\ toasts' = << Toast("error",
                                   "Please fill in all required fields") >>
             /\ poles' = poles /\ alerts' = alerts /\ addForm' = addForm
     /\ (AddIssueSubmit /\ AddFormIncomplete)
          => (\E k \in DOMAIN toasts' : toasts'[k].kind = "error")
     /\ (AddIssueSubmit /\ ~AddFormIncomplete)
          => /\ Succeeds
             /\ Pole(poles', addForm.selectedPoleId).status = "faulty"
             /\ Len(alerts') = Len(alerts) + 1
     /\ FixIssueSubmit
          => Succeeds /\ Pole(poles', fixSelectedPoleId).status = "healthy"
     /\ \A i \in DOMAIN poles :
          /\ ManualIsolate(i) => Succeeds /\ poles'[i].status = "isolated"
          /\ ManualFix(i) => Succeeds /\ poles'[i].status = "healthy"
          /\ ManualRestore(i) => Succeeds /\ poles'[i].status = "healthy"
     /\ IsolationTimerFires => Succeeds
     /\ ResetTimerFires => Succeeds /\ alerts' = << >>]_vars

\* a submission was rejected after an earlier one had been applied: the
\* modal is still open on the incomplete form
C8_Witness ==
  /\ toasts = << Toast("error", "Please fill in all required fields") >>
  /\ showAddIssueModal
  /\ AddFormIncomplete
  /\ \E k \in DOMAIN alerts : alerts[k].createdBy = "manual"

\* the step is one of the control operations
ControlOperation ==
  \/ \E p \in PoleIds :
       \/ handleIsolatePole(p)
       \/ handleRestorePole(p)
       \/ handleFixIssue(p)
       \/ \E data \in IssueData : handleAddIssue(p, data)
  \/ \E i \in DOMAIN alerts : handleDeleteAlert(alerts[i].id)
  \/ handleResetConfirm(<< Toast("success", "System reset completed") >>)

\* C9: poles and alerts are reset only by a reload of the page: whatever
\* the user does in between (opening and closing dialogs, the mobile
\* preview and back), they change only by a control operation, so the
\* effects of earlier operations stay in place.
C9_StateSurvivesUntilReload ==
  [][(poles' # poles \/ alerts' # alerts) => ControlOperation]_vars

\* C10: handleFixIssue is only ever applied to a pole that is faulty in the
\* registry at that moment.
C10_FixOnlyAppliedToFaultyPole ==
  [][\A p \in PoleIds :
       handleFixIssue(p) => Pole(poles, p).status = "faulty"]_vars

\* C11: handleAddIssue is only ever applied to a pole that is healthy in
\* the registry at that moment, also when the Add Issue dialog was cancelled
\* with a pole selected and is submitted later, after other operations.
C11_AddIssueOnlyAppliedToHealthyPole ==
  [][\A p \in PoleIds, data \in IssueData :
       handleAddIssue(p, data) => Pole(poles, p).status = "healthy"]_vars

\* C12: handleIsolatePole is only ever applied to a pole that is healthy or
\* faulty in the registry at that moment, so isolatedAt and isolatedBy of an
\* isolated pole are never overwritten by a second isolate.
C12_IsolateOnlyAppliedToEnergisedPole ==
  [][\A p \in PoleIds :
       handleIsolatePole(p) =>
         Pole(poles, p).status \in {"healthy", "faulty"}]_vars

\* C13: the registry is a fixed set: in every reachable state it holds the
\* poles P001..P005, each once and at its initial position, and every status
\* is healthy, faulty, isolated or maintenance; no operation adds or removes
\* a pole.
C13_RegistryIsFixed ==
  /\ Len(poles) = Len(mockPoles)
  /\ {poles[i].id : i \in DOMAIN poles} = {"P001", "P002", "P003", "P004", "P005"}
  /\ \A i \in DOMAIN poles :
       /\ poles[i].id = mockPoles[i].id
       /\ poles[i].status \in Statuses
       /\ \A j \in DOMAIN poles : poles[j].id = poles[i].id => j = i

\* two operations have changed two poles of the registry
C13_Witness ==
  /\ Pole(poles, "P002").status = "isolated"
  /\ Pole(poles, "P005").status = "healthy"
  /\ Len(poles) = 5

\* C14: in every reachable state the poleId of every alert is the id of a
\* pole of the registry.
C14_AlertsReferToRegisteredPoles ==
  \A k \in DOMAIN alerts :
    \E i \in DOMAIN poles : poles[i].id = alerts[k].poleId

\* two alerts were added through the Add Issue dialog
C14_Witness ==
  /\ Len(alerts) = 4
  /\ alerts[1].createdBy = "manual" /\ alerts[1].poleId = "P004"
  /\ alerts[2].createdBy = "manual" /\ alerts[2].poleId = "P002"
  /\ ~showAddIssueModal

\* the latest event ended with this success notification
Notified(message) ==
  /\ toasts' # << >>
  /\ toasts'[Len(toasts')] = Toast("success", message)

\* C15: every control operation that is applied (isolate, restore, fix,
\* addIssue, dismissal of an alert, reset) emits a notification for that
\* operation within the same event, before the next user action.
C15_EveryOperationNotifies ==
  [][/\ \A p \in PoleIds :
          /\ handleIsolatePole(p) => Notified("Pole " \o p \o " isolated")
          /\ handleRestorePole(p) => Notified("Pole " \o p \o " restored")
          /\ handleFixIssue(p) => Notified("Issue fixed for pole " \o p)
          /\ \A data \in IssueData :
               handleAddIssue(p, data) => Notified("Issue added to pole " \o p)
     /\ \A i \in DOMAIN alerts :
          handleDeleteAlert(alerts[i].id) => Notified("Alert deleted")
     /\ handleResetConfirm(<< Toast("success", "System reset completed") >>)
          => Notified("System reset complete")]_vars

\* an alert was dismissed after an issue had been added, and the
\* notification of the dismissal is the one on screen
C15_Witness ==
  /\ toasts = << Toast("success", "Alert deleted") >>
  /\ Len(alerts) = 2
  /\ \E i \in DOMAIN poles : poles[i].lastUpdated = toISOString(0)

\* C16: when a remote isolation through the confirmation dialog completes
\* (ISOLATE typed, Confirm pressed, the 2 s elapsed, "Line isolated
\* successfully" and "Isolation complete" notified), the affected pole is
\* isolated with voltage 0 and current 0.
C16_RemoteIsolationIsolatesPole ==
  [][IsolationTimerFires =>
       \E i \in DOMAIN poles :
         /\ poles[i].status # "isolated"
         /\ poles'[i].status = "isolated"
         /\ poles'[i].voltage = 0
         /\ poles'[i].current = 0]_vars

\* C17: IsolationModal.handleConfirm starts the isolation (loading state,
\* timer, notification) only if the confirmation text is exactly ISOLATE;
\* for any other text it changes no state and emits no notification.
C17_ConfirmGuardedByText ==
  [][/\ ConfirmIsolation =>
          IF confirmText = "ISOLATE"
          THEN /\ isoLoading'
               /\ timers'.isolate = timers.isolate + 1
               /\ toasts' = << Toast("loading", "Isolating faulty line...") >>
          ELSE /\ toasts' = << >>
               /\ UNCHANGED << panelVars, timers, now, showMobilePreview,
                               mobileVars >>
     /\ (timers'.isolate > timers.isolate \/ (isoLoading' /\ ~isoLoading))
          => confirmText = "ISOLATE"]_vars

\* an isolation was started with the text ISOLATE, beside a pole that an
\* earlier operation had changed
C17_Witness ==
  /\ showIsolationModal
  /\ confirmText = "ISOLATE"
  /\ isoLoading
  /\ timers.isolate = 1
  /\ toasts = << Toast("loading", "Isolating faulty line...") >>
  /\ poles # mockPoles

\* a reset was confirmed and its timer has not fired yet
ResetPending == timers.reset > 0

\* the reset has completed: both notifications, and no alert left
ResetCompleted ==
  /\ timers.reset = 0
  /\ toasts = << Toast("success", "System reset completed"),
                 Toast("success", "System reset complete") >>
  /\ alerts = << >>

\* C18: once the reset is confirmed, its delay eventually elapses and at
\* that point the alert list is empty, whatever was interleaved between the
\* confirmation and the timer (addIssue, fix, dismissal of an alert, closing
\* the dialog).
C18_ResetEventuallyClearsAlerts == ResetPending ~> ResetCompleted

\* a reset has completed although the dialog had been closed and an issue
\* added in the meantime
C18_Witness ==
  /\ ResetCompleted
  /\ ~showResetModal
  /\ ~resetLoading
  /\ \E i \in DOMAIN poles :
       poles[i].status = "faulty" /\ poles[i].lastUpdated = toISOString(0)

\* the shell has told the user that the confirmed action was queued
QueuedNotice ==
  /\ showMobilePreview
  /\ toasts = << Toast("info", "Action queued - will execute when online") >>

\* the success outcome of an isolate or a reset of the mobile shell
MobileActionExecuted ==
  \E k \in DOMAIN toasts :
    toasts[k] \in {Toast("success", "Remote isolation initiated successfully"),
                   Toast("success", "System reset completed successfully")}

\* C19: an isolate or reset confirmed in the mobile shell while offline is
\* queued, and once the shell is online again the queued action is
\* eventually executed: its success outcome is produced.
C19_QueuedActionRunsWhenOnline ==
  [](QueuedNotice =>
       []((showMobilePreview /\ isOnline) => <>MobileActionExecuted))

\* C20: whenever the isolation dialog is open, the pole it names
\* (isolationPoleId) is not null and is the id of a pole that is faulty now,
\* however the dialog was opened.
C20_IsolationModalNamesFaultyPole ==
  showIsolationModal =>
    /\ isolationPoleId # Null
    /\ \E i \in DOMAIN poles :
         poles[i].id = isolationPoleId /\ poles[i].status = "faulty"

\* C21: at most one isolation confirmation is in flight at any time: while
\* one waits on its 2 s delay no second one can be started, also when the
\* dialog is closed and opened again during the delay.
C21_SingleIsolationInFlight == timers.isolate <= 1

\* C22: whenever the panel shows "All lines are healthy" / "No active
\* faults detected" in place of the alert cards, every pole of the registry
\* is healthy and the alert list is empty.
C22_AllHealthyMessageIsTrue ==
  (~showMobilePreview /\ ~hasActiveFaults) =>
    /\ \A i \in DOMAIN poles : poles[i].status = "healthy"
    /\ alerts = << >>

\* C23: in every reachable state a pole has isolatedBy or isolatedAt set
\* only if it is isolated: a healthy or faulty pole, or one in maintenance,
\* carries no isolation metadata.
C23_IsolationMetadataOnlyWhenIsolated ==
  \A i \in DOMAIN poles :
    (poles[i].isolatedBy # Undefined \/ poles[i].isolatedAt # Undefined)
      => poles[i].status = "isolated"

\* C24: in every reachable state every isolated pole has voltage 0 and
\* current 0: a transition into isolated zeroes both, and every operation
\* that sets them to non-zero values also takes the pole out of isolated.
C24_IsolatedPolesReportZero ==
  \A i \in DOMAIN poles :
    poles[i].status = "isolated" =>
      poles[i].voltage = 0 /\ poles[i].current = 0

\* P001 (210 V) and P005 (220 V, in maintenance) have both been isolated
C24_Witness ==
  /\ Pole(poles, "P001").status = "isolated"
  /\ Pole(poles, "P005").status = "isolated"
  /\ Pole(poles, "P001").voltage = 0
  /\ Pole(poles, "P005").current = 0

\* C25: in every reachable state every healthy pole has neither fault type
\* nor severity, and every faulty pole has a fault type that is not empty.
C25_FaultFieldsFollowStatus ==
  \A i \in DOMAIN poles :
    /\ poles[i].status = "healthy"
         => poles[i].faultType = Undefined /\ poles[i].severity = Undefined
    /\ poles[i].status = "faulty"
         => poles[i].faultType \notin {Undefined, ""}

\* P001 was fixed and a healthy pole was made faulty through the Add Issue
\* dialog
C25_Witness ==
  /\ Pole(poles, "P001").status = "healthy"
  /\ Pole(poles, "P001").faultType = Undefined
  /\ Pole(poles, "P004").status = "faulty"
  /\ Pole(poles, "P004").faultType = "Line Break"
  /\ addForm = EmptyAddForm

\* the registry is the same but for the pole with this id
OtherPolesUnchanged(poleId) ==
  /\ Len(poles') = Len(poles)
  /\ \A i \in DOMAIN poles : poles[i].id # poleId => poles'[i] = poles[i]

\* C26: isolate, restore, fix and addIssue called with a pole id leave every
\* pole with another id as it is; called with an id that is not in the
\* registry they leave all poles as they are.
C26_OperationsTouchOnlyTheirPole ==
  [][\A p \in TargetIds :
       (\/ handleIsolatePole(p)
        \/ handleRestorePole(p)
        \/ handleFixIssue(p)
        \/ \E data \in IssueData : handleAddIssue(p, data))
         => /\ OtherPolesUnchanged(p)
            /\ p \notin PoleIds => poles' = poles]_vars

\* isolate was called with an id that is not in the registry, after P001
\* had been fixed: only P001 differs from the initial registry
C26_Witness ==
  /\ now = 2
  /\ toasts = << Toast("success", "Pole P999 isolated") >>
  /\ Pole(poles, "P001").status = "healthy"
  /\ \A i \in DOMAIN poles :
       poles[i].id # "P001" => poles[i] = mockPoles[i]

\* C27: an Add Issue submission with no pole or no fault type selected is
\* rejected: an error notification is emitted, handleAddIssue is not
\* called, poles and alerts are unchanged, the dialog stays open and the
\* form fields keep their values.
C27_IncompleteAddIssueIsRejected ==
  [][(AddIssueSubmit /\ AddFormIncomplete) =>
       /\ toasts' = << Toast("error", "Please fill in all required fields") >>
       /\ ~ \E p \in PoleIds \cup {""}, ft \in FaultTypes \cup {""},
              sev \in Severities :
            handleAddIssue(p, [faultType |-> ft, severity |-> sev])
       /\ poles' = poles
       /\ alerts' = alerts
       /\ now' = now
       /\ showAddIssueModal'
       /\ addForm' = addForm]_vars

\* a submission with a pole and a severity chosen but no fault type was
\* rejected, in a dialog opened again after a Cancel and an isolation: the
\* form still holds the pole and the severity
C27_Witness ==
  /\ toasts = << Toast("error", "Please fill in all required fields") >>
  /\ showAddIssueModal
  /\ addForm.selectedPoleId = "P002"
  /\ addForm.faultType = ""
  /\ Pole(poles, "P002").status = "isolated"

====
